---- MODULE Spec2Model ----
(***************************************************************************)
(* Model of the price consumer (src/Task3-Price-consumer): the batch       *)
(* handler lambda_handler, the per-document chain normalize_message ->     *)
(* validate_doc -> doc_to_rows -> upsert_rows, the dead-letter send, and   *)
(* the price_items table behind a transactional store.                     *)
(*                                                                         *)
(* Text values are sequences of one-character strings, so that strip()     *)
(* and lower() are computed and not assumed.  A missing key or a JSON null *)
(* is the value None.                                                      *)
(***************************************************************************)
EXTENDS Integers, Sequences, FiniteSets, TLC

\* ------------------------------------------------------------------ bounds
\* Longest batch (event["Records"]) lambda_handler is invoked with.
MaxBatch == 2
\* The last instant of the clock (utcnow and the store's NOW() start at 0).
MaxClock == 1
\* The storage calls and dead-letter sends that may raise in one run.
MaxFaults == 1
\* Longest items list of the documents the pipeline stages are applied to.
MaxItems == 2
\* Deepest string encoding of a body handed to the decoder.
MaxWrap == 2
\* The commands of the command-line consumer and the administrative
\* invocations (setup, probe, count) started in one behaviour.
MaxOps == 2

\* -------------------------------------------------------------------- text
None == <<"None">>
Space == " "

RECURSIVE lstrip(_)
lstrip(s) == IF s # <<>> /\ Head(s) = Space THEN lstrip(Tail(s)) ELSE s

RECURSIVE rstrip(_)
rstrip(s) ==
    IF s # <<>> /\ s[Len(s)] = Space THEN rstrip(SubSeq(s, 1, Len(s) - 1)) ELSE s

strip(s) == rstrip(lstrip(s))

lower_char(c) == IF c = "A" THEN "a" ELSE IF c = "C" THEN "c" ELSE c
lower(s) == [i \in 1..Len(s) |-> lower_char(s[i])]

\* ------------------------------------------------------------- normalizer
\* A float is finite (an integer stands for it), NaN, or an infinity of sign n.
Fin(n) == [k |-> "fin", n |-> n]
NaN == [k |-> "nan", n |-> 0]
Inf(sign) == [k |-> "inf", n |-> sign]

\* f < 0 on floats: every comparison with NaN is false.
float_lt(f, n) == (f.k = "fin" /\ f.n < n) \/ (f.k = "inf" /\ f.n < 0)

\* A price value is [k, n]: a number (k = "num", the float n; JSON as Python
\* reads it has the literals NaN and Infinity), a string float() parses to n
\* ("numstr"), a string it does not parse ("str"), or null/missing ("none").
\* float(v): the float, or an exception.
float(v) == IF v.k \in {"num", "numstr"} THEN [ok |-> TRUE, f |-> v.n] ELSE [ok |-> FALSE]

\* The environment: a variable is a text, or None when it is not set.
NoEnv == [DEFAULT_UNIT |-> None, DEFAULT_BRANCH |-> None]
getenv(env, name, default) == IF env[name] = None THEN default ELSE env[name]

\* DEFAULT_UNIT = os.getenv("DEFAULT_UNIT", "unit")
default_unit(env) == getenv(env, "DEFAULT_UNIT", <<"u", "n", "i", "t">>)
\* DEFAULT_BRANCH = os.getenv("DEFAULT_BRANCH", "default").strip()
default_branch(env) ==
    strip(getenv(env, "DEFAULT_BRANCH", <<"d", "e", "f", "a", "u", "l", "t">>))

\* The two defaults when the environment sets neither.
DEFAULT_UNIT == default_unit(NoEnv)
DEFAULT_BRANCH == default_branch(NoEnv)
PricesFull == <<"p", "r", "i", "c", "e", "s", "F", "u", "l", "l">>
PromoFull == <<"p", "r", "o", "m", "o", "F", "u", "l", "l">>
ALLOWED_TYPES == {PricesFull, PromoFull}

\* ("" if v is None else str(v)).strip()
_norm_text(v) == strip(IF v = None THEN <<>> ELSE v)

\* A faulty _norm_price: a price that does not parse becomes -1.
_norm_price_negative(v) == IF float(v).ok THEN float(v).f ELSE Fin(-1)

\* float(v), or 0.0 on any error.
_norm_price(v) == IF float(v).ok THEN float(v).f ELSE Fin(0)

_canon_type(t) == LET s == strip(t) IN IF s \in ALLOWED_TYPES THEN s ELSE PricesFull

\* A faulty _to_utc_z: the offset is replaced by Z and the wall time kept.
_to_utc_z_relabel(ts) ==
    IF ts.k \in {"z", "offset"} THEN [ok |-> TRUE, ts |-> [t |-> ts.t, sfx |-> "Z"]]
    ELSE [ok |-> FALSE]

\* A timestamp text is [k, t, off]: k = "z" (wall time t, suffix Z), "offset"
\* (wall time t at UTC offset off), "bad" (not ISO-8601), "blank" or "none".
\* _to_utc_z renders the instant in UTC with the suffix Z, or raises.
_to_utc_z(ts) ==
    IF ts.k = "z" THEN [ok |-> TRUE, ts |-> [t |-> ts.t, sfx |-> "Z"]]
    ELSE IF ts.k = "offset"
         THEN [ok |-> TRUE, ts |-> [t |-> ts.t - ts.off, sfx |-> "Z"]]
         ELSE [ok |-> FALSE]

\* A faulty raw_ts: the current instant replaces the timestamp the message carries.
raw_ts_now(ts, now) == [k |-> "offset", t |-> now, off |-> 0]

\* _norm_text(msg.get("timestamp")) or utcnow().replace(tzinfo=utc).isoformat()
raw_ts(ts, now) ==
    IF ts.k \in {"none", "blank"} THEN [k |-> "offset", t |-> now, off |-> 0] ELSE ts

\* One element of items: product and unit trimmed, unit defaulted when empty,
\* price a float.
norm_item(it, unit) ==
    [k       |-> "obj",
     product |-> _norm_text(it.product),
     unit    |-> IF _norm_text(it.unit) = <<>> THEN unit ELSE _norm_text(it.unit),
     price   |-> [k |-> "num", n |-> _norm_price(it.price)]]

\* msg.get("items", []) is [k |-> "list", v |-> <<...>>], absent, or null; an
\* element is an object [k |-> "obj", product, unit, price] or not an object.
\* Iterating null raises TypeError, it.get on a non-object AttributeError.
items_error(items) ==
    IF items.k = "null" THEN "TypeError"
    ELSE IF items.k = "list" /\ \E i \in 1..Len(items.v) : items.v[i].k # "obj"
         THEN "AttributeError"
         ELSE "none"

norm_items(items, unit) ==
    IF items.k = "list" THEN [i \in 1..Len(items.v) |-> norm_item(items.v[i], unit)]
    ELSE <<>>

\* normalize_message at the instant now under the environment env:
\* [ok |-> TRUE, doc] or the exception.
normalize_message_env(msg, now, env) ==
    LET ts == _to_utc_z(raw_ts(msg.timestamp, now)) IN
    IF ~ts.ok THEN [ok |-> FALSE, err |-> [kind |-> "TimestampParseError", msgs |-> <<>>]]
    ELSE IF items_error(msg.items) # "none"
    THEN [ok |-> FALSE, err |-> [kind |-> items_error(msg.items), msgs |-> <<>>]]
    ELSE [ok |-> TRUE,
          doc |-> [provider  |-> lower(_norm_text(msg.provider)),
                   branch    |-> IF _norm_text(msg.branch) = <<>>
                                 THEN default_branch(env)
                                 ELSE _norm_text(msg.branch),
                   type      |-> _canon_type(_norm_text(msg.type)),
                   timestamp |-> ts.ts,
                   items     |-> [k |-> "list",
                                  v |-> norm_items(msg.items, default_unit(env))],
                   src_key   |-> _norm_text(msg.src_key),
                   etag      |-> _norm_text(msg.etag)]]

\* normalize_message when the environment sets neither default.
normalize_message(msg, now) == normalize_message_env(msg, now, NoEnv)

\* -------------------------------------------------------------- validator
\* A document handed to validate_doc: provider, branch, type, src_key, etag
\* are texts or None (not a string); timestamp is [t, sfx] with sfx = "Z" for
\* a string that ends in Z; items is [k |-> "list", v] or not a list; an
\* element is [k |-> "obj", product, unit, price] or not an object.
Violation(i, text) == [i |-> i, msg |-> text]

\* not isinstance(v, str) or len(v.strip()) < 1
too_short(v) == v = None \/ Len(strip(v)) < 1

item_violations(i, it) ==
    IF it.k # "obj" THEN <<Violation(i, "must be an object")>>
    ELSE (IF too_short(it.product)
             THEN <<Violation(i, "product is too short")>> ELSE <<>>)
         \o (IF too_short(it.unit)
                THEN <<Violation(i, "unit is too short")>> ELSE <<>>)
         \o (IF ~float(it.price).ok
                THEN <<Violation(i, "price must be a number")>>
                ELSE IF float_lt(float(it.price).f, 0)
                     THEN <<Violation(i, "price must be >= 0")>> ELSE <<>>)

RECURSIVE items_violations(_, _)
items_violations(items, i) ==
    IF i > Len(items) THEN <<>>
    ELSE item_violations(i - 1, items[i]) \o items_violations(items, i + 1)

\* The violation texts validate_doc collects, in rule order; _err raises
\* ValueError("; ".join(msgs)) when there is one.
validate_doc(doc) ==
    (IF too_short(doc.provider)
        THEN <<Violation(-1, "'provider' is too short")>> ELSE <<>>)
    \o (IF too_short(doc.branch)
        THEN <<Violation(-1, "'branch' is too short")>> ELSE <<>>)
    \o (IF doc.type \notin ALLOWED_TYPES
        THEN <<Violation(-1, "'type' must be one of ['pricesFull', 'promoFull']")>>
        ELSE <<>>)
    \o (IF doc.timestamp.sfx # "Z"
        THEN <<Violation(-1, "'timestamp' must be ISO8601 UTC with Z suffix")>>
        ELSE <<>>)
    \o (IF doc.items.k # "list" \/ Len(doc.items.v) < 1
        THEN <<Violation(-1, "'items' must be a non-empty array")>>
        ELSE items_violations(doc.items.v, 1))

\* -------------------------------------------------------------- flattener
\* doc_to_rows raises when items is not iterable, an element is not an
\* object, or float(it["price"]) raises.
doc_to_rows_raises(doc) ==
    \/ doc.items.k # "list"
    \/ \E i \in 1..Len(doc.items.v) :
          doc.items.v[i].k # "obj" \/ ~float(doc.items.v[i].price).ok

\* A faulty doc_to_rows: the rows come out in reverse item order.
doc_to_rows_reversed(doc) ==
    [i \in 1..Len(doc.items.v) |->
        [provider |-> doc.provider,
         branch   |-> doc.branch,
         doc_type |-> doc.type,
         ts       |-> doc.timestamp,
         product  |-> doc.items.v[Len(doc.items.v) + 1 - i].product,
         unit     |-> doc.items.v[Len(doc.items.v) + 1 - i].unit,
         price    |-> float(doc.items.v[Len(doc.items.v) + 1 - i].price).f,
         src_key  |-> doc.src_key,
         etag     |-> doc.etag]]

\* One row per item, in item order; price is float(it["price"]).
doc_to_rows(doc) ==
    [i \in 1..Len(doc.items.v) |->
        [provider |-> doc.provider,
         branch   |-> doc.branch,
         doc_type |-> doc.type,
         ts       |-> doc.timestamp,
         product  |-> doc.items.v[i].product,
         unit     |-> doc.items.v[i].unit,
         price    |-> float(doc.items.v[i].price).f,
         src_key  |-> doc.src_key,
         etag     |-> doc.etag]]

\* ---------------------------------------------------------------- decoding
\* A body is [bom, wrap, ibom, json]: a leading byte-order mark, the number of
\* extra JSON string encodings around the document, a byte-order mark inside
\* the first of these strings, and the innermost text: a JSON object
\* [k |-> "obj", doc] or text that is not JSON [k |-> "garbage"].
\* s.lstrip("\ufeff") when the text starts with a byte-order mark.
strip_bom(s) == [s EXCEPT !.bom = FALSE]

\* json.loads: the object, the string one encoding further in, or an error
\* (text that is not JSON, or JSON behind a byte-order mark).
json_loads(s) ==
    IF s.bom THEN [k |-> "error"]
    ELSE IF s.wrap > 0
    THEN [k |-> "str",
          s |-> [bom |-> s.ibom, wrap |-> s.wrap - 1, ibom |-> FALSE, json |-> s.json]]
    ELSE IF s.json.k = "obj" THEN [k |-> "dict", doc |-> s.json.doc]
    ELSE [k |-> "error"]

\* A faulty _json_loads_maybe_twice: a string result is not decoded again.
_json_loads_once(s) == json_loads(strip_bom(s))

_json_loads_maybe_twice(s) ==
    LET obj == json_loads(strip_bom(s)) IN
    IF obj.k = "str" THEN json_loads(strip_bom(obj.s)) ELSE obj

\* The part of _process_doc before the store is touched, behind the decode:
\* the rows to write, or the exception that ends the record.
Prepare(body, now) ==
    LET obj == _json_loads_maybe_twice(body) IN
    IF obj.k = "error" THEN [ok |-> FALSE, err |-> [kind |-> "DecodeError", msgs |-> <<>>]]
    ELSE IF obj.k = "str"
    THEN [ok |-> FALSE, err |-> [kind |-> "AttributeError", msgs |-> <<>>]]
    ELSE LET n == normalize_message(obj.doc, now) IN
         IF ~n.ok THEN n
         ELSE IF validate_doc(n.doc) # <<>>
         THEN [ok |-> FALSE,
               err |-> [kind |-> "ValidationError", msgs |-> validate_doc(n.doc)]]
         ELSE [ok |-> TRUE, rows |-> doc_to_rows(n.doc)]

\* normalize_message calls utcnow only for a document without a timestamp.
ReadsClock(body) ==
    LET obj == _json_loads_maybe_twice(body) IN
    obj.k = "dict" /\ obj.doc.timestamp.k \in {"none", "blank"}

\* ------------------------------------------------------------------- store
\* price_items: PRIMARY KEY (provider, branch, doc_type, ts, product).
Key(r) ==
    [provider |-> r.provider, branch |-> r.branch, doc_type |-> r.doc_type,
     ts |-> r.ts, product |-> r.product]

\* A faulty upsert_row: a plain INSERT into a table without the primary key.
upsert_row_insert(S, r, now, by) ==
    S \cup {[provider |-> r.provider, branch |-> r.branch,
             doc_type |-> r.doc_type, ts |-> r.ts, product |-> r.product,
             unit |-> r.unit, price |-> r.price, src_key |-> r.src_key,
             etag |-> r.etag, updated_at |-> now, by |-> by]}

\* A faulty upsert_row: the conflict target leaves product out.
upsert_row_no_product(S, r, now, by) ==
    LET K(x) == [provider |-> x.provider, branch |-> x.branch,
                 doc_type |-> x.doc_type, ts |-> x.ts] IN
    IF \E s \in S : K(s) = K(r)
    THEN {IF K(s) = K(r)
             THEN [s EXCEPT !.unit = r.unit, !.price = r.price,
                            !.src_key = r.src_key, !.etag = r.etag,
                            !.updated_at = now, !.by = by]
             ELSE s : s \in S}
    ELSE S \cup {[provider |-> r.provider, branch |-> r.branch,
                  doc_type |-> r.doc_type, ts |-> r.ts, product |-> r.product,
                  unit |-> r.unit, price |-> r.price, src_key |-> r.src_key,
                  etag |-> r.etag, updated_at |-> now, by |-> by]}

\* A faulty upsert_row: DO UPDATE SET leaves etag out.
upsert_row_no_etag(S, r, now, by) ==
    IF \E s \in S : Key(s) = Key(r)
    THEN {IF Key(s) = Key(r)
             THEN [s EXCEPT !.unit = r.unit, !.price = r.price,
                            !.src_key = r.src_key,
                            !.updated_at = now, !.by = by]
             ELSE s : s \in S}
    ELSE S \cup {[provider |-> r.provider, branch |-> r.branch,
                  doc_type |-> r.doc_type, ts |-> r.ts, product |-> r.product,
                  unit |-> r.unit, price |-> r.price, src_key |-> r.src_key,
                  etag |-> r.etag, updated_at |-> now, by |-> by]}

\* One INSERT ... ON CONFLICT (key) DO UPDATE SET unit, price, src_key, etag =
\* EXCLUDED.*, updated_at = NOW().  by names the writing attempt; it is not a
\* column of the table.
upsert_row(S, r, now, by) ==
    IF \E s \in S : Key(s) = Key(r)
    THEN {IF Key(s) = Key(r)
             THEN [s EXCEPT !.unit = r.unit, !.price = r.price,
                            !.src_key = r.src_key, !.etag = r.etag,
                            !.updated_at = now, !.by = by]
             ELSE s : s \in S}
    ELSE S \cup {[provider |-> r.provider, branch |-> r.branch,
                  doc_type |-> r.doc_type, ts |-> r.ts, product |-> r.product,
                  unit |-> r.unit, price |-> r.price, src_key |-> r.src_key,
                  etag |-> r.etag, updated_at |-> now, by |-> by]}

\* The statements of one transaction, in order, as conn.commit() makes them
\* visible.
RECURSIVE ApplyTxn(_, _, _, _)
ApplyTxn(S, rs, now, by) ==
    IF rs = <<>> THEN S
    ELSE ApplyTxn(upsert_row(S, Head(rs), now, by), Tail(rs), now, by)

\* The table's columns without updated_at (and without the attempt's name).
Cols(s) ==
    [provider |-> s.provider, branch |-> s.branch, doc_type |-> s.doc_type,
     ts |-> s.ts, product |-> s.product, unit |-> s.unit, price |-> s.price,
     src_key |-> s.src_key, etag |-> s.etag]

Strip(S) == {Cols(s) : s \in S}
Keys(S) == {Key(s) : s \in S}

\* ---------------------------------------------------------------- messages
Item(p, u, price) == [k |-> "obj", product |-> p, unit |-> u, price |-> price]
Num(n) == [k |-> "num", n |-> Fin(n)]
NumStr(n) == [k |-> "numstr", n |-> Fin(n)]

\* Two items, timestamp with offset +00:00.
DocV1 ==
    [provider |-> <<"A">>, branch |-> <<"b">>, type |-> PricesFull,
     timestamp |-> [k |-> "offset", t |-> 2, off |-> 0],
     items |-> [k |-> "list",
                v |-> <<Item(<<"p">>, <<"u">>, Num(5)), Item(<<"q">>, <<"u">>, Num(5))>>],
     src_key |-> <<"s">>, etag |-> <<"e">>]

\* The natural keys of DocV1 (the same instant at another offset, the provider
\* in another spelling), the items in the other order, other values.
DocV2 ==
    [provider |-> <<"a", " ">>, branch |-> <<" ", "b">>, type |-> PricesFull,
     timestamp |-> [k |-> "offset", t |-> 3, off |-> 1],
     items |-> [k |-> "list",
                v |-> <<Item(<<"q">>, <<"v">>, Num(7)), Item(<<"p">>, <<"v">>, Num(7))>>],
     src_key |-> <<"t">>, etag |-> <<"f">>]

\* No timestamp, branch, type, unit; one product twice.
DocV3 ==
    [provider |-> <<"C">>, branch |-> None, type |-> None,
     timestamp |-> [k |-> "none", t |-> 0, off |-> 0],
     items |-> [k |-> "list",
                v |-> <<Item(<<"p">>, None, NumStr(5)), Item(<<"p">>, None, Num(6))>>],
     src_key |-> None, etag |-> None]

\* No provider and a negative price.
DocI1 ==
    [provider |-> None, branch |-> <<"b">>, type |-> PromoFull,
     timestamp |-> [k |-> "z", t |-> 2, off |-> 0],
     items |-> [k |-> "list", v |-> <<Item(<<"p">>, <<"u">>, Num(-1))>>],
     src_key |-> <<"s">>, etag |-> <<"e">>]

\* A timestamp that is not ISO-8601.
DocT1 == [DocV1 EXCEPT !.timestamp = [k |-> "bad", t |-> 0, off |-> 0]]

Plain(doc) ==
    [bom |-> FALSE, wrap |-> 0, ibom |-> FALSE, json |-> [k |-> "obj", doc |-> doc]]

BodyV1 == Plain(DocV1)
BodyV2 == [bom |-> TRUE, wrap |-> 1, ibom |-> TRUE, json |-> [k |-> "obj", doc |-> DocV2]]
BodyV3 == Plain(DocV3)
BodyI1 == Plain(DocI1)
BodyT1 == Plain(DocT1)
BodyD1 == [bom |-> TRUE, wrap |-> 0, ibom |-> FALSE, json |-> [k |-> "garbage"]]

Bodies == {BodyV1, BodyV2, BodyV3, BodyI1, BodyT1, BodyD1}

\* Two invocations of lambda_handler run side by side.
Workers == {1, 2}

\* event["Records"] of worker w, n records long: the transport gives every
\* record its own messageId.
Batches(w, n) ==
    {[i \in 1..n |-> [messageId |-> <<w, i>>, body |-> f[i]]] : f \in [1..n -> Bodies]}

\* The events of the two invocations: one invocation with a batch while the
\* other has nothing to do, or two concurrent deliveries of at most one
\* message each.
EventSizes == {p \in (0..MaxBatch) \X (0..1) : p[2] = 0 \/ p[1] <= 1}

Events ==
    UNION {{[w \in Workers |-> IF w = 1 THEN b1 ELSE b2] :
                b1 \in Batches(1, p[1]), b2 \in Batches(2, p[2])} : p \in EventSizes}

\* The ways _sqs.send_message ends: delivered, one of the two exception
\* classes _send_to_dlq catches, or any other exception.
SendOutcomes == {"ok", "BotoCoreError", "ClientError", "OtherError"}

\* ------------------------------------------------------------------- state
VARIABLES
    queueProvider,  \* QUEUE_PROVIDER
    dlqUrl,         \* DLQ_URL, "" when unset
    dbEnv,          \* DB_HOST, DB_NAME, DB_USER, DB_PASSWORD: "set" or "missing"
    clock,          \* the instant last read (utcnow and the store's NOW())
    store,          \* the committed rows of price_items
    dlq,            \* the messages delivered to the dead-letter queue
    pc,             \* per worker: where lambda_handler is
    batch,          \* per worker: event["Records"]
    idx,            \* per worker: the record the loop is at
    total,          \* per worker: total
    failures,       \* per worker: failures
    rows,           \* per worker: the rows of the current record
    txn,            \* per worker: rows written in the open transaction
    txnStart,       \* per worker: NOW() of the open transaction
    err,            \* per worker: the exception caught
    result,         \* per worker: what lambda_handler returned
    faults,         \* the storage calls and dead-letter sends that raised so far
    pipe,           \* one document on its way through the pipeline stages
    queue,          \* the source queue: per message its body and where it is
    schema,         \* the objects of the database the DDL has created
    cli,            \* the command-line consumer: consume-batch, consume-file
    admin,          \* an administrative invocation: setup, probe, count
    log             \* per worker: how each record ended (history)

vars ==
    <<queueProvider, dlqUrl, dbEnv, clock, store, dlq, pc, batch, idx, total, failures,
      rows, txn, txnStart, err, result, faults, pipe, queue, schema, cli, admin,
      log>>

config == <<queueProvider, dlqUrl, dbEnv>>

NoErr == [kind |-> "none", msgs |-> <<>>]

\* The settings the consumer is started with: QUEUE_PROVIDER and DLQ_URL.
Configs == {<<"sqs", "https://sqs/dlq">>, <<"sqs", "">>, <<"kafka", "https://sqs/dlq">>}

\* No document is being taken through the stages one by one.
Idle == [stage |-> "idle"]

\* The store's required settings are all set, or one of them is missing.
DbEnvs == {"set", "missing"}

\* DDL_PRICE_ITEMS: the table with its primary key, and the index.
Schema == {"price_items", "price_items_pk", "price_items_branch_type_ts_idx"}

\* The command-line consumer and the administrative actions, and what they
\* are when neither has been invoked.
ops == <<queue, schema, cli, admin>>
CliIdle ==
    [pc |-> "idle", cmd |-> "none", run |-> 0, msgs |-> <<>>, i |-> 1,
     processed |-> 0, rows |-> <<>>, start |-> 0, conn |-> 0, opened |-> 0,
     committed |-> FALSE, err |-> NoErr, hist |-> <<>>]
AdminIdle ==
    [pc |-> "idle", action |-> "none", conn |-> 0, calls |-> 0, setups |-> 0, seen |-> 0]
NoOps == queue = <<>> /\ schema = Schema /\ cli = CliIdle /\ admin = AdminIdle

\* Each worker has entered lambda_handler with its event: total = 0,
\* failures = [], the loop at the first record.
Init ==
    /\ \E c \in Configs : queueProvider = c[1] /\ dlqUrl = c[2]
    /\ dbEnv \in DbEnvs
    /\ clock = 0
    /\ store = {}
    /\ dlq = {}
    /\ pc = [w \in Workers |-> "loop"]
    /\ batch \in Events
    /\ idx = [w \in Workers |-> 1]
    /\ total = [w \in Workers |-> 0]
    /\ failures = [w \in Workers |-> <<>>]
    /\ rows = [w \in Workers |-> <<>>]
    /\ txn = [w \in Workers |-> <<>>]
    /\ txnStart = [w \in Workers |-> 0]
    /\ err = [w \in Workers |-> NoErr]
    /\ result = [w \in Workers |-> [k |-> "none"]]
    /\ faults = 0
    /\ pipe = Idle
    /\ NoOps
    /\ log = [w \in Workers |-> <<>>]

Rec(w) == batch[w][idx[w]]
Attempt(w) == Rec(w).messageId

\* A storage exception; sent is the number of rows the transaction had
\* written when it was raised.
StorageErr(what, sent) == [kind |-> "StorageError", msgs |-> <<Violation(sent, what)>>]

\* How a record ended: its exception kind (or "ok"), what became of the
\* dead-letter send, the rows written before a failure, the rows committed.
LogEntry(w, kind, send, sent) ==
    [id |-> Rec(w).messageId, body |-> Rec(w).body, kind |-> kind, dlq |-> send,
     sent |-> sent, rows |-> IF kind = "ok" THEN rows[w] ELSE <<>>]

\* ----------------------------------------------------------------- actions
\* A run injects at most MaxFaults faults: storage calls (get_conn,
\* executemany, commit) and dead-letter sends that raise.
\* The instants a step may read from the clock: time does not go back.
Instants == clock..MaxClock

\* The next record: decode, normalize (which reads utcnow), validate,
\* flatten.  An exception goes to the except clause.
BeginRecord(w) ==
    /\ pc[w] = "loop"
    /\ idx[w] <= Len(batch[w])
    /\ \E now \in IF ReadsClock(Rec(w).body) THEN Instants ELSE {clock} :
         LET p == Prepare(Rec(w).body, now) IN
         /\ clock' = now
         /\ IF p.ok
            THEN /\ rows' = [rows EXCEPT ![w] = p.rows]
                 /\ pc' = [pc EXCEPT ![w] = "connect"]
                 /\ err' = err
            ELSE /\ err' = [err EXCEPT ![w] = p.err]
                 /\ pc' = [pc EXCEPT ![w] = "except"]
                 /\ rows' = rows
    /\ UNCHANGED <<config, pipe, ops, store, dlq, batch, idx, total, failures, txn,
                   txnStart, result, log, faults>>

\* _env raises RuntimeError("Missing env var: ...").
ConfigErr == [kind |-> "RuntimeError", msgs |-> <<Violation(0, "Missing env var")>>]

\* get_conn() with a required setting missing: _env raises before any
\* connection is attempted, for every record alike.
ConfigError(w) ==
    /\ pc[w] = "connect"
    /\ dbEnv = "missing"
    /\ err' = [err EXCEPT ![w] = ConfigErr]
    /\ pc' = [pc EXCEPT ![w] = "except"]
    /\ UNCHANGED <<config, pipe, ops, clock, store, dlq, batch, idx, total, failures, rows,
                   txn, txnStart, result, log, faults>>

\* get_conn() returns a connection: no transaction is open yet.
ConnectOk(w) ==
    /\ pc[w] = "connect"
    /\ dbEnv = "set"
    /\ pc' = [pc EXCEPT ![w] = "upsert"]
    /\ txn' = [txn EXCEPT ![w] = <<>>]
    /\ UNCHANGED <<config, pipe, ops, clock, store, dlq, batch, idx, total, failures, rows,
                   txnStart, err, result, log, faults>>

\* get_conn() raises in pg.connect (store unreachable, login refused).
ConnectFail(w) ==
    /\ pc[w] = "connect"
    /\ dbEnv = "set"
    /\ faults < MaxFaults
    /\ faults' = faults + 1
    /\ err' = [err EXCEPT ![w] = StorageErr("get_conn", 0)]
    /\ pc' = [pc EXCEPT ![w] = "except"]
    /\ UNCHANGED <<config, pipe, ops, clock, store, dlq, batch, idx, total, failures, rows,
                   txn, txnStart, result, log>>

\* The row executemany writes next, and the rows other open transactions
\* have written: a second writer of a key waits for the first to end.
NextRow(w) == rows[w][Len(txn[w]) + 1]
Writing(w) == pc[w] = "upsert" /\ Len(txn[w]) < Len(rows[w])
Holds(w, key) == \E i \in 1..Len(txn[w]) : Key(txn[w][i]) = key
WaitsFor(w, v) == Writing(w) /\ v # w /\ Holds(v, Key(NextRow(w)))
Blocked(w) == \E v \in Workers : WaitsFor(w, v)

\* executemany writes one row inside the transaction; the first statement
\* opens it, and NOW() is the instant it was opened.
UpsertRow(w) ==
    /\ Writing(w)
    /\ ~Blocked(w)
    /\ txn' = [txn EXCEPT ![w] = Append(@, NextRow(w))]
    /\ IF txn[w] = <<>>
       THEN \E now \in Instants :
              /\ clock' = now
              /\ txnStart' = [txnStart EXCEPT ![w] = now]
       ELSE UNCHANGED <<clock, txnStart>>
    /\ UNCHANGED <<config, pipe, ops, store, dlq, pc, batch, idx, total, failures, rows,
                   err, result, log, faults>>

\* A faulty UpsertFail: the finally clause commits before it closes, so the rows written
\* before the failure stay.
UpsertFail_commits(w) ==
    /\ Writing(w)
    /\ store' = ApplyTxn(store, txn[w], txnStart[w], Attempt(w))
    /\ txn' = [txn EXCEPT ![w] = <<>>]
    /\ faults < MaxFaults
    /\ faults' = faults + 1
    /\ err' = [err EXCEPT ![w] = StorageErr("executemany", Len(txn[w]))]
    /\ pc' = [pc EXCEPT ![w] = "except"]
    /\ UNCHANGED <<config, pipe, ops, clock, dlq, batch, idx, total, failures, rows,
                   txnStart, result, log>>

\* executemany raises at the next row; the finally clause closes the
\* connection without a commit, which discards the transaction.
UpsertFail(w) ==
    /\ Writing(w)
    /\ txn' = [txn EXCEPT ![w] = <<>>]
    /\ faults < MaxFaults
    /\ faults' = faults + 1
    /\ err' = [err EXCEPT ![w] = StorageErr("executemany", Len(txn[w]))]
    /\ pc' = [pc EXCEPT ![w] = "except"]
    /\ UNCHANGED <<config, pipe, ops, clock, store, dlq, batch, idx, total, failures, rows,
                   txnStart, result, log>>

\* Two transactions wait for each other's rows: the store ends one of them
\* with an error.
DeadlockAbort(w) ==
    /\ \E v \in Workers : WaitsFor(w, v) /\ WaitsFor(v, w)
    /\ txn' = [txn EXCEPT ![w] = <<>>]
    /\ err' = [err EXCEPT ![w] = StorageErr("deadlock detected", Len(txn[w]))]
    /\ pc' = [pc EXCEPT ![w] = "except"]
    /\ UNCHANGED <<config, pipe, ops, clock, store, dlq, batch, idx, total, failures, rows,
                   txnStart, result, log, faults>>

\* A faulty CommitOk: total = upserted in place of total += upserted.
CommitOk_assigns(w) ==
    /\ pc[w] = "upsert"
    /\ Len(txn[w]) = Len(rows[w])
    /\ store' = ApplyTxn(store, txn[w], txnStart[w], Attempt(w))
    /\ txn' = [txn EXCEPT ![w] = <<>>]
    /\ total' = [total EXCEPT ![w] = Len(rows[w])]
    /\ log' = [log EXCEPT ![w] = Append(@, LogEntry(w, "ok", "none", Len(txn[w])))]
    /\ idx' = [idx EXCEPT ![w] = @ + 1]
    /\ pc' = [pc EXCEPT ![w] = "loop"]
    /\ UNCHANGED <<config, pipe, ops, clock, dlq, batch, failures, rows, txnStart, err,
                   result, faults>>

\* conn.commit() succeeds: the rows become visible at once; the connection is
\* closed, n = len(params) is returned, total += upserted.
CommitOk(w) ==
    /\ pc[w] = "upsert"
    /\ Len(txn[w]) = Len(rows[w])
    /\ store' = ApplyTxn(store, txn[w], txnStart[w], Attempt(w))
    /\ txn' = [txn EXCEPT ![w] = <<>>]
    /\ total' = [total EXCEPT ![w] = @ + Len(rows[w])]
    /\ log' = [log EXCEPT ![w] = Append(@, LogEntry(w, "ok", "none", Len(txn[w])))]
    /\ idx' = [idx EXCEPT ![w] = @ + 1]
    /\ pc' = [pc EXCEPT ![w] = "loop"]
    /\ UNCHANGED <<config, pipe, ops, clock, dlq, batch, failures, rows, txnStart, err,
                   result, faults>>

\* conn.commit() raises: nothing is committed, the connection is closed.
CommitFail(w) ==
    /\ pc[w] = "upsert"
    /\ Len(txn[w]) = Len(rows[w])
    /\ txn' = [txn EXCEPT ![w] = <<>>]
    /\ faults < MaxFaults
    /\ faults' = faults + 1
    /\ err' = [err EXCEPT ![w] = StorageErr("commit", Len(txn[w]))]
    /\ pc' = [pc EXCEPT ![w] = "except"]
    /\ UNCHANGED <<config, pipe, ops, clock, store, dlq, batch, idx, total, failures, rows,
                   txnStart, result, log>>

\* A faulty _send_to_dlq: the body is sent without its byte-order mark.
_send_to_dlq_stripped(original_body, err_msg, o) ==
    IF queueProvider # "sqs" THEN [attempted |-> FALSE, delivered |-> FALSE, raised |-> FALSE]
    ELSE IF dlqUrl = "" THEN [attempted |-> FALSE, delivered |-> FALSE, raised |-> FALSE]
    ELSE [attempted |-> TRUE,
          delivered |-> o = "ok",
          raised    |-> o \notin {"ok", "BotoCoreError", "ClientError"},
          message   |-> [error |-> err_msg, original |-> strip_bom(original_body)]]

\* _send_to_dlq(original_body, err_msg) when send_message ends as o: whether
\* the send was attempted, the message delivered, an exception left to escape.
_send_to_dlq(original_body, err_msg, o) ==
    IF queueProvider # "sqs" THEN [attempted |-> FALSE, delivered |-> FALSE, raised |-> FALSE]
    ELSE IF dlqUrl = "" THEN [attempted |-> FALSE, delivered |-> FALSE, raised |-> FALSE]
    ELSE [attempted |-> TRUE,
          delivered |-> o = "ok",
          raised    |-> o \notin {"ok", "BotoCoreError", "ClientError"},
          message   |-> [error |-> err_msg, original |-> original_body]]

SendResult(s) ==
    IF ~s.attempted THEN "skipped"
    ELSE IF s.delivered THEN "sent"
    ELSE IF s.raised THEN "raised" ELSE "swallowed"

\* A faulty failures_append: only the first failure of a batch is kept.
failures_append_first(fs, rec) ==
    IF fs = <<>> THEN <<[itemIdentifier |-> rec.messageId]>> ELSE fs

\* failures.append({"itemIdentifier": rec.get("messageId", "unknown")})
failures_append(fs, rec) == Append(fs, [itemIdentifier |-> rec.messageId])

\* What lambda_handler returns after the loop.
handler_result(fs, n) ==
    IF fs # <<>> THEN [k |-> "failures", batchItemFailures |-> fs]
    ELSE [k |-> "ok", ok |-> TRUE, upserted |-> n]

\* A faulty HandleFailure: the loop ends at the first failed record.
HandleFailure_breaks(w) ==
    /\ pc[w] = "except"
    /\ \E o \in IF faults < MaxFaults THEN SendOutcomes ELSE {"ok"} :
         LET s == _send_to_dlq(Rec(w).body, err[w], o) IN
         /\ faults' = IF s.attempted /\ o # "ok" THEN faults + 1 ELSE faults
         /\ dlq' = IF s.delivered
                   THEN dlq \cup {[id |-> Attempt(w), message |-> s.message]}
                   ELSE dlq
         /\ log' = [log EXCEPT ![w] =
                      Append(@, LogEntry(w, err[w].kind, SendResult(s),
                                         IF err[w].kind = "StorageError"
                                         THEN err[w].msgs[1].i ELSE 0))]
         /\ IF s.raised
            THEN /\ pc' = [pc EXCEPT ![w] = "raised"]
                 /\ UNCHANGED <<failures, idx>>
            ELSE /\ failures' = [failures EXCEPT ![w] = failures_append(@, Rec(w))]
                 /\ idx' = [idx EXCEPT ![w] = Len(batch[w]) + 1]
                 /\ pc' = [pc EXCEPT ![w] = "loop"]
    /\ err' = [err EXCEPT ![w] = NoErr]
    /\ UNCHANGED <<config, pipe, ops, clock, store, batch, total, rows, txn, txnStart, result>>

\* The except clause: _send_to_dlq(body, str(e)), then failures.append.
HandleFailure(w) ==
    /\ pc[w] = "except"
    /\ \E o \in IF faults < MaxFaults THEN SendOutcomes ELSE {"ok"} :
         LET s == _send_to_dlq(Rec(w).body, err[w], o) IN
         /\ faults' = IF s.attempted /\ o # "ok" THEN faults + 1 ELSE faults
         /\ dlq' = IF s.delivered
                   THEN dlq \cup {[id |-> Attempt(w), message |-> s.message]}
                   ELSE dlq
         /\ log' = [log EXCEPT ![w] =
                      Append(@, LogEntry(w, err[w].kind, SendResult(s),
                                         IF err[w].kind = "StorageError"
                                         THEN err[w].msgs[1].i ELSE 0))]
         /\ IF s.raised
            THEN /\ pc' = [pc EXCEPT ![w] = "raised"]
                 /\ UNCHANGED <<failures, idx>>
            ELSE /\ failures' = [failures EXCEPT ![w] = failures_append(@, Rec(w))]
                 /\ idx' = [idx EXCEPT ![w] = @ + 1]
                 /\ pc' = [pc EXCEPT ![w] = "loop"]
    /\ err' = [err EXCEPT ![w] = NoErr]
    /\ UNCHANGED <<config, pipe, ops, clock, store, batch, total, rows, txn, txnStart, result>>

\* After the loop: the failures if there are any, else the count.
Return(w) ==
    /\ pc[w] = "loop"
    /\ idx[w] > Len(batch[w])
    /\ result' = [result EXCEPT ![w] = handler_result(failures[w], total[w])]
    /\ pc' = [pc EXCEPT ![w] = "done"]
    /\ UNCHANGED <<config, pipe, ops, clock, store, dlq, batch, idx, total, failures, rows,
                   txn, txnStart, err, log, faults>>

Next ==
    \E w \in Workers :
         \/ BeginRecord(w)
         \/ ConfigError(w)
         \/ ConnectOk(w)
         \/ ConnectFail(w)
         \/ UpsertRow(w)
         \/ UpsertFail(w)
         \/ DeadlockAbort(w)
         \/ CommitOk(w)
         \/ CommitFail(w)
         \/ HandleFailure(w)
         \/ Return(w)

Spec == Init /\ [][Next]_vars

\* ----------------------------------------------------- the stages alone
\* The stages of _process_doc applied one by one to one input: a raw body
\* (decode, normalize, validate, flatten) or a document handed to
\* validate_doc as it is.

\* The texts and values a raw document is built from.
RawProviders == {None, <<"A", " ">>}
RawBranches == {None, <<" ">>, <<"b", " ">>}
RawTypes == {None, <<" ">> \o PromoFull, <<"x">>}
RawTimestamps ==
    {[k |-> "none", t |-> 0, off |-> 0], [k |-> "blank", t |-> 0, off |-> 0],
     [k |-> "z", t |-> 1, off |-> 0], [k |-> "offset", t |-> 2, off |-> 1],
     [k |-> "bad", t |-> 0, off |-> 0]}
NotObject == [k |-> "other"]
RawItems ==
    {Item(<<" ", "p">>, <<"u">>, Num(1)),
     Item(None, None, Num(-1)),
     Item(<<"p">>, <<" ">>, [k |-> "str", n |-> Fin(0)]),
     Item(<<"p">>, <<"u">>, [k |-> "num", n |-> NaN]),
     Item(<<"q">>, None, NumStr(2)),
     Item(<<"q">>, <<"u">>, [k |-> "none", n |-> Fin(0)]),
     NotObject}

\* The sequences over S of length at most n.
SeqsUpTo(S, n) == UNION {[1..m -> S] : m \in 0..n}

RawItemLists ==
    {[k |-> "absent"], [k |-> "null"]}
        \cup {[k |-> "list", v |-> v] : v \in SeqsUpTo(RawItems, MaxItems)}

\* The raw documents: JSON objects with every key present, null or absent.
RawDocs ==
    {[provider |-> p, branch |-> b, type |-> t, timestamp |-> ts, items |-> it,
      src_key |-> <<" ", "s">>, etag |-> None] :
        p \in RawProviders, b \in RawBranches, t \in RawTypes,
        ts \in RawTimestamps, it \in RawItemLists}

\* The documents validate_doc can be handed: any value in any field.
DocTexts == {None, <<" ">>, <<"a">>}
DocTypes == {None, PricesFull, <<"x">>}
DocTimestamps == {[t |-> 1, sfx |-> "Z"], [t |-> 1, sfx |-> "+00:00"], [t |-> 0, sfx |-> "null"]}
DocItems ==
    {[k |-> "obj", product |-> <<"p">>, unit |-> <<"u">>, price |-> Num(0)],
     [k |-> "obj", product |-> None, unit |-> <<" ">>, price |-> [k |-> "str", n |-> Fin(0)]],
     [k |-> "obj", product |-> <<"p">>, unit |-> <<"u">>, price |-> Num(-1)],
     [k |-> "obj", product |-> <<"p">>, unit |-> <<"u">>, price |-> [k |-> "num", n |-> NaN]],
     [k |-> "obj", product |-> <<"p">>, unit |-> <<"u">>, price |-> [k |-> "numstr", n |-> Inf(-1)]],
     [k |-> "obj", product |-> <<" ">>, unit |-> None, price |-> [k |-> "none", n |-> Fin(0)]],
     NotObject}
DocItemLists ==
    {[k |-> "null"]} \cup {[k |-> "list", v |-> v] : v \in SeqsUpTo(DocItems, MaxItems)}
Docs ==
    {[provider |-> p, branch |-> b, type |-> t, timestamp |-> ts, items |-> it,
      src_key |-> None, etag |-> <<"e">>] :
        p \in DocTexts, b \in DocTexts, t \in DocTypes,
        ts \in DocTimestamps, it \in DocItemLists}

\* The encodings of a JSON text as a body: byte-order mark or not, up to
\* MaxWrap levels of string encoding, a byte-order mark inside the string.
Encodings(json) ==
    {[bom |-> b, wrap |-> n, ibom |-> ib, json |-> json] :
        b \in BOOLEAN, n \in 0..MaxWrap, ib \in BOOLEAN}
EncodedBodies ==
    UNION {Encodings(j) : j \in {[k |-> "obj", doc |-> DocV1], [k |-> "obj", doc |-> DocV3],
                                 [k |-> "obj", doc |-> DocI1], [k |-> "garbage"]}}
PipeBodies == EncodedBodies \cup {Plain(d) : d \in RawDocs}

\* The environments: both defaults unset, a blank DEFAULT_BRANCH, both set.
Envs ==
    {NoEnv,
     [DEFAULT_UNIT |-> None, DEFAULT_BRANCH |-> <<" ">>],
     [DEFAULT_UNIT |-> <<"k">>, DEFAULT_BRANCH |-> <<" ", "m">>]}

Nil == [k |-> "nil"]

\* The handler is not running: no batch, an empty store.
Quiet ==
    /\ queueProvider = "sqs" /\ dlqUrl = "" /\ dbEnv = "set"
    /\ clock = 0 /\ store = {} /\ dlq = {} /\ faults = 0
    /\ pc = [w \in Workers |-> "done"]
    /\ batch = [w \in Workers |-> <<>>]
    /\ idx = [w \in Workers |-> 1]
    /\ total = [w \in Workers |-> 0]
    /\ failures = [w \in Workers |-> <<>>]
    /\ rows = [w \in Workers |-> <<>>]
    /\ txn = [w \in Workers |-> <<>>]
    /\ txnStart = [w \in Workers |-> 0]
    /\ err = [w \in Workers |-> NoErr]
    /\ result = [w \in Workers |-> [k |-> "none"]]
    /\ log = [w \in Workers |-> <<>>]

handler == <<queueProvider, dlqUrl, dbEnv, clock, store, dlq, pc, batch, idx, total,
             failures, rows, txn, txnStart, err, result, faults, log>>

\* from: "body" for a raw body, "doc" for a document handed to validate_doc.
Start(from, env, body, doc) ==
    [stage |-> IF from = "body" THEN "body" ELSE "normalized", from |-> from,
     env |-> env, body |-> body, now |-> 0, obj |-> Nil, doc |-> doc,
     err |-> "none", msgs |-> <<>>, rows |-> <<>>]

PipeInit ==
    /\ Quiet
    /\ NoOps
    /\ \/ \E env \in Envs : \E body \in PipeBodies : pipe = Start("body", env, body, Nil)
       \/ \E doc \in Docs : pipe = Start("doc", NoEnv, Nil, doc)

\* doc = _json_loads_maybe_twice(body)
Decode ==
    /\ pipe.stage = "body"
    /\ LET obj == _json_loads_maybe_twice(pipe.body) IN
       pipe' = IF obj.k = "error"
               THEN [pipe EXCEPT !.stage = "raised", !.err = "DecodeError"]
               ELSE [pipe EXCEPT !.stage = "decoded", !.obj = obj]
    /\ UNCHANGED <<handler, ops>>

\* norm = normalize_message(doc); a decoded value that is no object has no
\* get.
Normalize ==
    /\ pipe.stage = "decoded"
    /\ \E now \in IF ReadsClock(pipe.body) THEN 0..MaxClock ELSE {0} :
         pipe' =
           IF pipe.obj.k # "dict"
           THEN [pipe EXCEPT !.stage = "raised", !.err = "AttributeError"]
           ELSE LET n == normalize_message_env(pipe.obj.doc, now, pipe.env) IN
                IF n.ok
                THEN [pipe EXCEPT !.stage = "normalized", !.now = now, !.doc = n.doc]
                ELSE [pipe EXCEPT !.stage = "raised", !.now = now, !.err = n.err.kind]
    /\ UNCHANGED <<handler, ops>>

\* validate_doc(norm)
Validate ==
    /\ pipe.stage = "normalized"
    /\ LET msgs == validate_doc(pipe.doc) IN
       pipe' = IF msgs = <<>>
               THEN [pipe EXCEPT !.stage = "valid"]
               ELSE [pipe EXCEPT !.stage = "rejected", !.err = "ValidationError",
                                 !.msgs = msgs]
    /\ UNCHANGED <<handler, ops>>

\* rows = doc_to_rows(norm)
Flatten ==
    /\ pipe.stage = "valid"
    /\ pipe' = IF doc_to_rows_raises(pipe.doc)
               THEN [pipe EXCEPT !.stage = "raised", !.err = "FlattenError"]
               ELSE [pipe EXCEPT !.stage = "rows", !.rows = doc_to_rows(pipe.doc)]
    /\ UNCHANGED <<handler, ops>>

PipeNext == Decode \/ Normalize \/ Validate \/ Flatten

PipeSpec == PipeInit /\ [][PipeNext]_vars

\* ------------------------------------------------------------ the claims
Entries(w) == {log[w][i] : i \in 1..Len(log[w])}
AllEntries == UNION {Entries(w) : w \in Workers}
FailedIds(w) == {e.id : e \in {x \in Entries(w) : x.kind # "ok"}}
CommittedIds(w) == {e.id : e \in {x \in Entries(w) : x.kind = "ok"}}
FailureIds(w) == {failures[w][i].itemIdentifier : i \in 1..Len(failures[w])}
ReportedIds(w) ==
    IF result[w].k = "failures"
    THEN {result[w].batchItemFailures[i].itemIdentifier :
              i \in 1..Len(result[w].batchItemFailures)}
    ELSE {}

\* The failures that end a message for good: the body does not decode, the
\* timestamp does not parse, the document does not validate.
PermanentKinds == {"DecodeError", "TimestampParseError", "ValidationError"}
DlqConfigured == queueProvider = "sqs" /\ dlqUrl # ""

\* C1: whatever way a record fails (decode, timestamp, validation, storage),
\* lambda_handler does not raise, and it returns only after every record of
\* the batch has reached its outcome.
C1_FailureIsolation ==
    \A w \in Workers :
        /\ pc[w] # "raised"
        /\ pc[w] = "done" => Len(log[w]) = Len(batch[w])

\* C2: when a record of the batch failed, the result lists exactly the failed
\* records' message identifiers, each once, and none of a record whose rows
\* were committed.
C2_ExactFailedIds ==
    \A w \in Workers :
        (pc[w] = "done" /\ FailedIds(w) # {}) =>
            /\ result[w].k = "failures"
            /\ ReportedIds(w) = FailedIds(w)
            /\ Len(result[w].batchItemFailures) = Cardinality(FailedIds(w))
            /\ ReportedIds(w) \cap CommittedIds(w) = {}
            /\ \A s \in store : s.by \notin ReportedIds(w)

\* C2's case: a returned batch with a failed record and a committed one.
C2_Witness ==
    \E w \in Workers :
        pc[w] = "done" /\ FailedIds(w) # {} /\ CommittedIds(w) # {}

\* C3: a message whose store write failed is never dead-lettered: no send
\* is made for it, and the dead-letter queue holds no storage failure.
C3_StorageFailureNotDeadLettered ==
    /\ \A e \in AllEntries : e.kind = "StorageError" => e.dlq = "skipped"
    /\ \A m \in dlq : m.message.error.kind \in PermanentKinds

Failures == [b \in Bodies |-> LET p == Prepare(b, 0) IN IF p.ok THEN NoErr ELSE p.err]
Failure(body) == Failures[body]

C5_DlqFailureSwallowed ==
    \A w \in Workers : \A e \in Entries(w) :
        e.dlq \in {"swallowed", "raised"} => e.id \in FailureIds(w)

\* Two rows name the same natural key.
SameKey(r, s) ==
    /\ r.provider = s.provider /\ r.branch = s.branch /\ r.doc_type = s.doc_type
    /\ r.ts = s.ts /\ r.product = s.product

\* The values a message's rows leave for each of its keys: of two rows with
\* one key, the later.
Final(rs) ==
    {Cols(rs[i]) : i \in {j \in 1..Len(rs) :
                              \A k \in (j + 1)..Len(rs) : ~SameKey(rs[j], rs[k])}}

\* The attempts in flight: a record between get_conn and its outcome.
InFlight == {Attempt(w) : w \in {v \in Workers : pc[v] \in {"connect", "upsert", "except"}}}

\* C6: the rows of a message become visible all at once or not at all: a
\* message whose write failed or is still under way owns no stored row, and
\* every key of a committed message is stored, with the values that message
\* wrote unless a later commit overwrote them.
C6_AllOrNothing ==
    /\ \A s \in store : s.by \notin InFlight
    /\ \A e \in AllEntries :
          /\ e.kind # "ok" => \A s \in store : s.by # e.id
          /\ e.kind = "ok" =>
                \A r \in Final(e.rows) :
                    \E s \in store : SameKey(s, r) /\ (s.by = e.id => Cols(s) = r)

\* C6's case: a write failed after some of the message's rows were sent.
C6_Witness ==
    \E e \in AllEntries : e.kind = "StorageError" /\ e.sent >= 1 /\ Len(e.rows) = 0
                            /\ store # {}

\* Worker w commits in this step.
Commits(w) == pc[w] = "upsert" /\ pc'[w] = "loop"

\* C7: upserting the rows of a document whose rows the store already holds
\* leaves the same set of rows; only updated_at changes.
C7_UpsertIdempotent ==
    [][\A w \in Workers :
          (Commits(w) /\ Final(txn[w]) \subseteq Strip(store)) =>
              /\ Strip(store') = Strip(store)
              /\ Cardinality(store') = Cardinality(store)]_vars

\* C7's case: a document was committed twice, the second time at a later
\* instant.
C7_Witness ==
    \E e1 \in AllEntries : \E e2 \in AllEntries :
        /\ e1.id # e2.id /\ e1.kind = "ok" /\ e2.kind = "ok" /\ e1.rows = e2.rows
        /\ \E s \in store : s.by = e2.id /\ s.updated_at > 0

\* The raw document of a body that decodes.
DocOf(body) == _json_loads_maybe_twice(body).doc
HasTimestamp(body) == ~ReadsClock(body)
OkEntries == {e \in AllEntries : e.kind = "ok"}
KeyCount(rs) == Cardinality({Key(c) : c \in Final(rs)})

\* C8 as stated: whether or not the message carries a timestamp, processing
\* it again leaves the natural keys of one processing, one stored row for
\* each unique key of the message.
C8_RedeliverySafe ==
    \A e \in OkEntries :
        (\A c \in OkEntries : c.body = e.body) =>
            /\ Keys(store) = {Key(c) : c \in Final(e.rows)}
            /\ Cardinality(store) = KeyCount(e.rows)

\* C8, amended: for a message that passes validation and carries a
\* timestamp, processing it again (in one batch or in another delivery)
\* leaves the natural keys of one processing, one stored row for each unique
\* key of the message.
C8_RedeliverySafeWithTimestamp ==
    \A e \in OkEntries :
        (HasTimestamp(e.body) /\ \A c \in OkEntries : c.body = e.body) =>
            /\ Keys(store) = {Key(c) : c \in Final(e.rows)}
            /\ Cardinality(store) = KeyCount(e.rows)

\* C8's case: a message with a timestamp was committed twice.
C8_Witness ==
    \E e1 \in OkEntries : \E e2 \in OkEntries :
        e1.id # e2.id /\ e1.body = e2.body /\ HasTimestamp(e1.body)

\* Both workers were handed the same single message.
SameMessage ==
    /\ \A w \in Workers : Len(batch[w]) = 1
    /\ \A w \in Workers : \A v \in Workers : batch[w][1].body = batch[v][1].body

BothCommitted == \A w \in Workers : CommittedIds(w) # {}
Deadlocked == \E w \in Workers : \E v \in Workers : WaitsFor(w, v) /\ WaitsFor(v, w)

\* C9 as stated: two workers that process the same message never block each
\* other for good, and once both have committed the store holds the rows of
\* one processing (all columns but updated_at).
C9_ConcurrentSameMessage ==
    SameMessage =>
        /\ ~Deadlocked
        /\ BothCommitted =>
              \A e \in OkEntries :
                  /\ Strip(store) = Final(e.rows)
                  /\ Cardinality(store) = Cardinality(Final(e.rows))

\* The rows one processing of a body with a timestamp leaves.
RowsOnce(body) == Final(Prepare(body, 0).rows)

\* C9, amended: two workers that process the same message, which carries a
\* timestamp, never block each other for good, and once both have committed
\* the store holds the rows of one processing (all columns but updated_at).
C9_ConcurrentSameMessageWithTimestamp ==
    (SameMessage /\ HasTimestamp(batch[1][1].body)) =>
        /\ ~Deadlocked
        /\ BothCommitted =>
              /\ Strip(store) = RowsOnce(batch[1][1].body)
              /\ Cardinality(store) = Cardinality(RowsOnce(batch[1][1].body))

\* C9's case: both workers committed the same message with a timestamp.
C9_Witness == SameMessage /\ HasTimestamp(batch[1][1].body) /\ BothCommitted

\* C10: every stored row holds the key and unit, price, src_key, etag that
\* one attempt wrote for this key, the attempt that committed the key last.
C10_LastWriterWins ==
    \A s \in store : \E e \in OkEntries : e.id = s.by /\ Cols(s) \in Final(e.rows)

\* C10's case: two workers committed different values for one key.
C10_Witness ==
    \E e1 \in Entries(1) : \E e2 \in Entries(2) :
        /\ e1.kind = "ok" /\ e2.kind = "ok"
        /\ \E r1 \in Final(e1.rows) : \E r2 \in Final(e2.rows) :
              /\ SameKey(r1, r2)
              /\ r1.unit # r2.unit /\ r1.price # r2.price
              /\ r1.src_key # r2.src_key /\ r1.etag # r2.etag

\* No two stored rows share a natural key.
KeyUnique == \A s \in store : \A t \in store : Key(s) = Key(t) => s = t

\* C11: the store never holds two rows with one natural key; a commit
\* leaves every row whose key it does not write as it was, keeps every key
\* that was stored, and for each key it writes leaves one row with that key
\* and the unit, price, src_key, etag it wrote last, stamped with its NOW().
C11_KeyUniqueOverwrite ==
    /\ []KeyUnique
    /\ [][\A w \in Workers : Commits(w) =>
             /\ Keys(store') = Keys(store) \cup {Key(r) : r \in Final(txn[w])}
             /\ \A s \in store :
                   (\A r \in Final(txn[w]) : ~SameKey(r, s)) => s \in store'
             /\ \A r \in Final(txn[w]) :
                   \E t \in store' :
                       Cols(t) = r /\ t.updated_at = txnStart[w]]_vars

\* C11's case: a stored row was overwritten by a later attempt with other
\* values at a later instant.
C11_Witness ==
    \E s \in store : \E e \in OkEntries :
        /\ e.id # s.by /\ s.updated_at > 0
        /\ \E r \in Final(e.rows) :
              SameKey(r, s) /\ r.unit # s.unit /\ r.price # s.price

\* The number of items of the raw document in a body that decodes.
ItemCount(body) == Len(DocOf(body).items.v)

\* The item counts of the first n records of a batch, summed.
RECURSIVE SumItems(_, _)
SumItems(b, n) == IF n = 0 THEN 0 ELSE SumItems(b, n - 1) + ItemCount(b[n].body)

\* C12: when no record of the batch failed, lambda_handler returns
\* {ok: true, upserted: N} with N the sum of the records' item counts; for
\* an empty Records list N is 0.
C12_SuccessCount ==
    \A w \in Workers :
        (pc[w] = "done" /\ FailedIds(w) = {}) =>
            /\ result[w] = [k |-> "ok", ok |-> TRUE,
                             upserted |-> SumItems(batch[w], Len(batch[w]))]
            /\ Len(batch[w]) = 0 => result[w].upserted = 0

\* C12's case: a batch of two records, both committed, has returned.
C12_Witness ==
    \E w \in Workers :
        /\ pc[w] = "done" /\ Len(batch[w]) = 2 /\ FailedIds(w) = {}
        /\ result[w].upserted = 4

\* A body is valid when it decodes, normalizes and validates.
Valid(body) == Failures[body] = NoErr
Invalid(body) == Failures[body].kind \in PermanentKinds
Records(w) == {batch[w][i] : i \in 1..Len(batch[w])}
ValidRecords(w) == {r \in Records(w) : Valid(r.body)}
InvalidRecords(w) == {r \in Records(w) : Invalid(r.body)}
Mixed(w) ==
    /\ ValidRecords(w) # {} /\ InvalidRecords(w) # {}
    /\ ValidRecords(w) \cup InvalidRecords(w) = Records(w)
NoStorageFailure(w) ==
    \A e \in Entries(w) : e.kind \notin {"StorageError", "RuntimeError"}
Ended(w) == pc[w] \in {"done", "raised"}

\* The item counts of the valid records among the first n, summed.
RECURSIVE SumValidItems(_, _)
SumValidItems(b, n) ==
    IF n = 0 THEN 0
    ELSE SumValidItems(b, n - 1) + (IF Valid(b[n].body) THEN ItemCount(b[n].body) ELSE 0)

\* The rows of every valid record of the batch are committed.
ValidCommitted(w) ==
    \A r \in ValidRecords(w) :
        \E e \in Entries(w) :
            /\ e.id = r.messageId /\ e.kind = "ok"
            /\ \A c \in Final(e.rows) : \E s \in store : SameKey(s, c)

C14_ConfigErrorNotPerMessage ==
    \A w \in Workers : \A e \in Entries(w) :
        e.kind = "RuntimeError" =>
            /\ e.dlq = "skipped"
            /\ e.id \notin FailureIds(w)
            /\ \A m \in dlq : m.id # e.id

\* ------------------------------------------- the claims about the stages
\* validate_doc has run on the document of pipe.
Validated == pipe.stage \in {"valid", "rejected", "rows"}

\* The rules of a valid document, each on its own.
NonEmptyText(v) == v # None /\ Len(strip(v)) >= 1
float_ge0(f) == (f.k = "fin" /\ f.n >= 0) \/ (f.k = "inf" /\ f.n > 0)
PriceRule(v) == float(v).ok /\ float_ge0(float(v).f)
ItemsRule(doc) == doc.items.k = "list" /\ Len(doc.items.v) >= 1

\* The rules an item violates, in rule order.
ItemRules(it) ==
    IF it.k # "obj" THEN <<"object">>
    ELSE (IF NonEmptyText(it.product) THEN <<>> ELSE <<"product">>)
         \o (IF NonEmptyText(it.unit) THEN <<>> ELSE <<"unit">>)
         \o (IF PriceRule(it.price) THEN <<>> ELSE <<"price">>)

RECURSIVE ItemsRules(_, _)
ItemsRules(items, i) ==
    IF i > Len(items) THEN <<>>
    ELSE [j \in 1..Len(ItemRules(items[i])) |-> <<i - 1, ItemRules(items[i])[j]>>]
             \o ItemsRules(items, i + 1)

\* The rules a document violates, in rule order: <<item index or -1, rule>>.
ViolatedRules(doc) ==
    (IF NonEmptyText(doc.provider) THEN <<>> ELSE << <<-1, "provider">> >>)
    \o (IF NonEmptyText(doc.branch) THEN <<>> ELSE << <<-1, "branch">> >>)
    \o (IF doc.type \in {PricesFull, PromoFull} THEN <<>> ELSE << <<-1, "type">> >>)
    \o (IF doc.timestamp.sfx = "Z" THEN <<>> ELSE << <<-1, "timestamp">> >>)
    \o (IF ItemsRule(doc) THEN ItemsRules(doc.items.v, 1) ELSE << <<-1, "items">> >>)

\* The rule a violation text is about.
RuleOf(text) ==
    CASE text = "'provider' is too short" -> "provider"
      [] text = "'branch' is too short" -> "branch"
      [] text = "'type' must be one of ['pricesFull', 'promoFull']" -> "type"
      [] text = "'timestamp' must be ISO8601 UTC with Z suffix" -> "timestamp"
      [] text = "'items' must be a non-empty array" -> "items"
      [] text = "must be an object" -> "object"
      [] text = "product is too short" -> "product"
      [] text = "unit is too short" -> "unit"
      [] text \in {"price must be a number", "price must be >= 0"} -> "price"

ReportedRules(msgs) == [j \in 1..Len(msgs) |-> <<msgs[j].i, RuleOf(msgs[j].msg)>>]

\* A price of the document is NaN.
HasNaN(doc) ==
    /\ doc.items.k = "list"
    /\ \E i \in 1..Len(doc.items.v) :
          /\ doc.items.v[i].k = "obj" /\ float(doc.items.v[i].price).ok
          /\ float(doc.items.v[i].price).f.k = "nan"

\* C15: the error of validate_doc holds one violation text for every rule
\* the document violates, in rule order.
C15_Exhaustive ==
    Validated => ReportedRules(pipe.msgs) = ViolatedRules(pipe.doc)

\* C15 for the documents without a NaN price.
C15_ExhaustiveWithoutNaN ==
    (Validated /\ ~HasNaN(pipe.doc)) =>
        ReportedRules(pipe.msgs) = ViolatedRules(pipe.doc)

\* C15's case away from NaN: a document that violates six rules at once.
C15_SeveralViolations ==
    pipe.stage = "rejected" /\ ~HasNaN(pipe.doc) /\ Len(pipe.msgs) >= 6

\* C16: validate_doc accepts a document exactly when no rule is violated; a
\* document without items or with an empty list is rejected with a violation
\* about items; a negative or non-numeric price is rejected.
C16_AcceptsIffRulesHold ==
    Validated =>
        /\ (pipe.stage # "rejected") <=> ViolatedRules(pipe.doc) = <<>>
        /\ ~ItemsRule(pipe.doc) =>
              \E j \in 1..Len(pipe.msgs) :
                  pipe.msgs[j].msg = "'items' must be a non-empty array"
        /\ (/\ ItemsRule(pipe.doc)
            /\ \E i \in 1..Len(pipe.doc.items.v) :
                  /\ pipe.doc.items.v[i].k = "obj"
                  /\ \/ ~float(pipe.doc.items.v[i].price).ok
                     \/ float_lt(float(pipe.doc.items.v[i].price).f, 0))
              => pipe.stage = "rejected"

\* C16 for the documents without a NaN price.
C16_AcceptsIffRulesHoldWithoutNaN ==
    (Validated /\ ~HasNaN(pipe.doc)) =>
        /\ (pipe.stage # "rejected") <=> ViolatedRules(pipe.doc) = <<>>
        /\ ~ItemsRule(pipe.doc) =>
              \E j \in 1..Len(pipe.msgs) :
                  pipe.msgs[j].msg = "'items' must be a non-empty array"

\* A message body whose item price is NaN has passed validation.
NaNAccepted == pipe.from = "body" /\ pipe.stage = "valid" /\ HasNaN(pipe.doc)

\* C17: for every raw document whose normalized form passes validation,
\* doc_to_rows does not fail and returns one row per item, in item order;
\* row i carries the document's provider, branch, type, timestamp, src_key
\* and etag and item i's product, unit and price.
C17_RowsOfValidDocument ==
    /\ pipe.err # "FlattenError"
    /\ pipe.stage = "rows" =>
          /\ Len(pipe.rows) = Len(pipe.doc.items.v)
          /\ pipe.from = "body" =>
                /\ pipe.obj.doc.items.k = "list"
                /\ Len(pipe.rows) = Len(pipe.obj.doc.items.v)
          /\ \A i \in 1..Len(pipe.rows) :
                /\ pipe.rows[i].provider = pipe.doc.provider
                /\ pipe.rows[i].branch = pipe.doc.branch
                /\ pipe.rows[i].doc_type = pipe.doc.type
                /\ pipe.rows[i].ts = pipe.doc.timestamp
                /\ pipe.rows[i].src_key = pipe.doc.src_key
                /\ pipe.rows[i].etag = pipe.doc.etag
                /\ pipe.rows[i].product = pipe.doc.items.v[i].product
                /\ pipe.rows[i].unit = pipe.doc.items.v[i].unit
                /\ pipe.rows[i].price = pipe.doc.items.v[i].price.n

\* C17's case: a message body with two different items has been flattened.
C17_Witness ==
    /\ pipe.from = "body" /\ pipe.stage = "rows"
    /\ Len(pipe.rows) = 2 /\ pipe.rows[1] # pipe.rows[2]

\* normalize_message has been called on a decoded object and has raised.
NormalizeRaised ==
    pipe.stage = "raised" /\ pipe.obj.k = "dict" /\ pipe.err # "FlattenError"

\* The timestamp text of the raw document is not ISO-8601.
Malformed(msg) == msg.timestamp.k = "bad"

\* items of the raw document is absent or a list of objects.
PlainItems(msg) ==
    \/ msg.items.k = "absent"
    \/ /\ msg.items.k = "list"
       /\ \A i \in 1..Len(msg.items.v) : msg.items.v[i].k = "obj"

\* C18: normalize_message fails only when the timestamp text is malformed;
\* for every other decoded raw document, items absent, items null or an
\* item that is not an object included, it returns a canonical document.
C18_FailsOnlyOnTimestamp ==
    NormalizeRaised => Malformed(pipe.obj.doc)

\* C18 for the raw documents whose items are absent or a list of objects.
C18_FailsOnlyOnTimestampPlainItems ==
    (NormalizeRaised /\ PlainItems(pipe.obj.doc)) => Malformed(pipe.obj.doc)

\* The default branch the environment configures, trimmed.
ConfiguredBranch(env) ==
    strip(IF env.DEFAULT_BRANCH = None
          THEN <<"d", "e", "f", "a", "u", "l", "t">>
          ELSE env.DEFAULT_BRANCH)

\* The branch of the raw document is missing or blank.
BlankBranch(msg) == msg.branch = None \/ strip(msg.branch) = <<>>

\* The type of the raw document is not one of the two recognized types.
UnrecognizedType(msg) ==
    msg.type = None \/ strip(msg.type) \notin {PricesFull, PromoFull}

\* No rule other than the branch rule is violated.
OtherwiseValid(doc) ==
    \A j \in 1..Len(ViolatedRules(doc)) : ViolatedRules(doc)[j][2] = "branch"

\* The raw document of a message body has been normalized and validated.
RawValidated == Validated /\ pipe.from = "body"

\* C19: a missing or blank branch normalizes to the configured default
\* branch and, the document being otherwise valid, passes validation; an
\* unrecognized type is coerced to pricesFull, so validation of a normalized
\* document never fails on the type rule.
C19_DefaultBranchAndType ==
    RawValidated =>
        /\ BlankBranch(pipe.obj.doc) =>
              /\ pipe.doc.branch = ConfiguredBranch(pipe.env)
              /\ OtherwiseValid(pipe.doc) => pipe.stage # "rejected"
        /\ UnrecognizedType(pipe.obj.doc) => pipe.doc.type = PricesFull
        /\ \A j \in 1..Len(pipe.msgs) : RuleOf(pipe.msgs[j].msg) # "type"

\* C19 when the configured default branch is not blank.
C19_DefaultBranchAndTypeNotBlank ==
    (RawValidated /\ ConfiguredBranch(pipe.env) # <<>>) =>
        /\ BlankBranch(pipe.obj.doc) =>
              /\ pipe.doc.branch = ConfiguredBranch(pipe.env)
              /\ OtherwiseValid(pipe.doc) => pipe.stage # "rejected"
        /\ UnrecognizedType(pipe.obj.doc) => pipe.doc.type = PricesFull
        /\ \A j \in 1..Len(pipe.msgs) : RuleOf(pipe.msgs[j].msg) # "type"

\* C19's case when the default is not blank: a raw document without a
\* branch and with an unrecognized type has passed validation.
C19_DefaultedAndValid ==
    /\ RawValidated /\ pipe.stage = "valid"
    /\ BlankBranch(pipe.obj.doc) /\ UnrecognizedType(pipe.obj.doc)

\* The body of pipe is a JSON object behind n extra string encodings.
Encoded(n) ==
    pipe.from = "body" /\ pipe.body.json.k = "obj" /\ pipe.body.wrap = n

\* What the single-encoded body of the same object decodes and normalizes
\* to at the instant and under the environment of pipe.
Single == normalize_message_env(pipe.body.json.doc, pipe.now, pipe.env)

\* pipe is where the single-encoded body of the same object would be after
\* decoding and after normalization.
AsSingle ==
    /\ pipe.stage # "body" =>
          pipe.obj = [k |-> "dict", doc |-> pipe.body.json.doc]
    /\ pipe.stage \in {"normalized", "valid", "rejected", "rows"} =>
          Single.ok /\ pipe.doc = Single.doc
    /\ pipe.stage = "raised" =>
          \/ ~Single.ok /\ pipe.err = Single.err.kind
          \/ Single.ok /\ pipe.err = "FlattenError"

\* C20: a JSON object body that is JSON-encoded once more, with or without
\* a leading byte-order mark, is decoded and normalized to the document of
\* the single-encoded body; only one extra level of encoding is unwrapped.
C20_DecodingTolerance ==
    /\ (Encoded(0) \/ Encoded(1)) => AsSingle
    /\ (pipe.from = "body" /\ pipe.body.json.k = "obj" /\ pipe.body.wrap >= 2
            /\ pipe.stage # "body") =>
          /\ pipe.obj.k = "str"
          /\ pipe.stage \in {"decoded", "raised"}

\* C20's case: a double-encoded body behind a byte-order mark has been
\* normalized and has passed validation.
C20_Witness ==
    Encoded(1) /\ pipe.body.bom /\ pipe.stage = "valid"

\* C20's other case: a body encoded three times is left a string.
C20_TwiceWrapped ==
    Encoded(2) /\ pipe.stage = "raised" /\ pipe.err = "AttributeError"

\* The instant a timestamp text with an offset (or Z) denotes.
Instant(ts) == ts.t - ts.off

\* The raw document of pipe carries a parseable timestamp with an offset.
WithOffset == pipe.from = "body" /\ pipe.obj.k = "dict"
                  /\ pipe.obj.doc.timestamp.k \in {"z", "offset"}

\* normalize_message has returned the document of pipe.
Normalized ==
    pipe.from = "body" /\ pipe.stage \in {"normalized", "valid", "rejected", "rows"}

\* C21: a parseable timestamp with an offset is rendered as the same instant
\* in UTC with the suffix Z, so the same instant at different offsets gives
\* the same ts, and every timestamp normalization produces ends in Z.
C21_TimestampCanonical ==
    /\ Normalized => pipe.doc.timestamp.sfx = "Z"
    /\ WithOffset => pipe.err # "TimestampParseError"
    /\ (WithOffset /\ Normalized) =>
          pipe.doc.timestamp = [t |-> Instant(pipe.obj.doc.timestamp), sfx |-> "Z"]
    /\ pipe.stage = "rows" =>
          \A i \in 1..Len(pipe.rows) : pipe.rows[i].ts.sfx = "Z"

\* C21's case: a timestamp at an offset other than UTC has been normalized.
C21_Witness ==
    /\ WithOffset /\ Normalized
    /\ pipe.obj.doc.timestamp.off # 0
    /\ pipe.doc.timestamp.t # pipe.obj.doc.timestamp.t

\* A raw price that is absent or does not parse as a number, and one that
\* is a negative number.
NonNumeric(v) == v.k \notin {"num", "numstr"}
Negative(v) == v.k \in {"num", "numstr"} /\ v.n.k \in {"fin", "inf"} /\ v.n.n < 0

\* The items of the raw document of pipe: none when the key is absent.
RawItemsOf == IF pipe.obj.doc.items.k = "list" THEN pipe.obj.doc.items.v ELSE <<>>

\* validate_doc has reported the price of item i (counted from 1).
PriceReported(i) ==
    \E j \in 1..Len(pipe.msgs) :
        pipe.msgs[j].i = i - 1 /\ RuleOf(pipe.msgs[j].msg) = "price"

\* C30: a raw price that is non-numeric or absent is replaced by 0 before
\* validation, so it is not rejected and its row carries the price 0; only
\* a negative number in the raw message is rejected on the price rule.
C30_NonNumericPriceIsZero ==
    RawValidated =>
        /\ Len(pipe.doc.items.v) = Len(RawItemsOf)
        /\ \A i \in 1..Len(pipe.doc.items.v) :
              LET raw == RawItemsOf[i].price IN
              /\ PriceReported(i) <=> Negative(raw)
              /\ NonNumeric(raw) =>
                    /\ pipe.doc.items.v[i].price = Num(0)
                    /\ pipe.stage = "rows" => pipe.rows[i].price = Fin(0)
        /\ (\A j \in 1..Len(pipe.msgs) : RuleOf(pipe.msgs[j].msg) = "price")
              => (pipe.stage = "rejected" <=>
                    \E i \in 1..Len(RawItemsOf) :
                        Negative(RawItemsOf[i].price))

\* C30's case: a message whose prices are a non-numeric text and absent has
\* passed validation and been flattened.
C30_Witness ==
    /\ RawValidated /\ pipe.stage = "rows" /\ Len(pipe.rows) = 2
    /\ pipe.obj.doc.items.v[1].price.k = "str"
    /\ pipe.obj.doc.items.v[2].price.k = "none"
    /\ pipe.rows[1].price = Fin(0) /\ pipe.rows[2].price = Fin(0)

\* The records of worker w that have reached their outcome are the first
\* ones of its batch, in batch order, one outcome each, and the loop is at
\* the record after them.
Sequential(w) ==
    /\ Len(log[w]) <= Len(batch[w])
    /\ \A i \in 1..Len(log[w]) : log[w][i].id = batch[w][i].messageId
    /\ pc[w] # "raised" => idx[w] = Len(log[w]) + 1
    /\ pc[w] \in {"connect", "upsert", "except"} => idx[w] <= Len(batch[w])

\* C26: a worker takes its batch record by record and to completion: when
\* lambda_handler has ended every record has exactly one outcome, and no
\* record is started before the one ahead of it has its outcome.
C26_SequentialToCompletion ==
    \A w \in Workers :
        /\ Sequential(w)
        /\ Ended(w) => Len(log[w]) = Len(batch[w])

\* C26 for the runs in which lambda_handler returns.
C26_SequentialToReturn ==
    \A w \in Workers :
        /\ Sequential(w)
        /\ pc[w] = "done" => Len(log[w]) = Len(batch[w])

\* C26's case when lambda_handler returns: a batch of two records, the
\* first failed and dead-lettered, the second committed.
C26_BothOutcomes ==
    \E w \in Workers :
        /\ pc[w] = "done" /\ Len(log[w]) = 2
        /\ log[w][1].kind # "ok" /\ log[w][1].dlq = "sent" /\ log[w][2].kind = "ok"

\* ------------------------------------- the command line and the admin
\* The command-line consumer runs consume-batch and consume-file one after
\* another against a source queue, while setup, probe and count are
\* invoked; lambda_handler's workers have no batch.

\* The bodies in the source queue: valid, failing validation, failing the
\* timestamp parse, failing the decode.
CliBodies == {BodyV1, BodyI1, BodyT1, BodyD1}

\* The documents consume-file is given (json.load of the file).
FileBodies == {BodyV1, BodyI1}

\* The source queue: message m is queue[m], visible, in flight (received and
\* hidden until its visibility timeout) or deleted.  It starts with one
\* message, with a failing message ahead of a valid one, or with two valid
\* messages that name the same keys.
SourceQueue(bodies) == [m \in 1..Len(bodies) |-> [body |-> bodies[m], at |-> "visible"]]
SourceQueues ==
    {SourceQueue(<<b>>) : b \in CliBodies}
        \cup {SourceQueue(<<BodyI1, BodyV1>>), SourceQueue(<<BodyV1, BodyV2>>)}

\* No worker of lambda_handler has a batch.
Resting ==
    /\ pc = [w \in Workers |-> "done"]
    /\ batch = [w \in Workers |-> <<>>]
    /\ idx = [w \in Workers |-> 1]
    /\ total = [w \in Workers |-> 0]
    /\ failures = [w \in Workers |-> <<>>]
    /\ rows = [w \in Workers |-> <<>>]
    /\ txn = [w \in Workers |-> <<>>]
    /\ txnStart = [w \in Workers |-> 0]
    /\ err = [w \in Workers |-> NoErr]
    /\ result = [w \in Workers |-> [k |-> "none"]]
    /\ log = [w \in Workers |-> <<>>]

workers == <<pc, batch, idx, total, failures, rows, txn, txnStart, err, result, log>>

\* The database is empty, with or without the schema of setup.
CliInit ==
    /\ \E c \in Configs : queueProvider = c[1] /\ dlqUrl = c[2]
    /\ dbEnv \in DbEnvs
    /\ clock = 0 /\ store = {} /\ dlq = {} /\ faults = 0
    /\ Resting
    /\ pipe = Idle
    /\ queue \in SourceQueues
    /\ schema \in {{}, Schema}
    /\ cli = CliIdle
    /\ admin = AdminIdle

Min(a, b) == IF a <= b THEN a ELSE b

RECURSIVE Ascending(_)
Ascending(S) ==
    IF S = {} THEN <<>>
    ELSE LET m == CHOOSE x \in S : \A y \in S : x <= y IN <<m>> \o Ascending(S \ {m})

Visible == {m \in 1..Len(queue) : queue[m].at = "visible"}
CliStopped == cli.pc \in {"idle", "done", "raised", "exit"}

\* _cmd_consume_batch up to its loop.  _sqs_receive_batch exits when
\* QUEUE_PROVIDER is not sqs; receive_message returns at most max_messages
\* of the visible messages, possibly none, and hides them.
ConsumeBatch ==
    /\ CliStopped
    /\ cli.run + admin.calls < MaxOps
    /\ IF queueProvider # "sqs"
       THEN /\ cli' = [cli EXCEPT !.pc = "exit", !.cmd = "consume-batch", !.run = @ + 1,
                                  !.msgs = <<>>]
            /\ queue' = queue
       ELSE \E n \in 0..Min(Cardinality(Visible), MaxBatch) :
              LET got == SubSeq(Ascending(Visible), 1, n) IN
              /\ queue' = [m \in 1..Len(queue) |->
                             IF \E j \in 1..n : got[j] = m
                             THEN [queue[m] EXCEPT !.at = "inflight"] ELSE queue[m]]
              /\ cli' = [cli EXCEPT !.pc = IF n = 0 THEN "done" ELSE "loop",
                                    !.cmd = "consume-batch", !.run = @ + 1,
                                    !.msgs = [j \in 1..n |->
                                                [id |-> got[j], body |-> queue[got[j]].body]],
                                    !.i = 1, !.processed = 0]
    /\ UNCHANGED <<config, pipe, workers, clock, store, dlq, faults, schema, admin>>

\* _cmd_consume_file: json.load(f), then _process_doc(doc).
ConsumeFile ==
    /\ CliStopped
    /\ cli.run + admin.calls < MaxOps
    /\ \E body \in FileBodies :
         cli' = [cli EXCEPT !.pc = "loop", !.cmd = "consume-file", !.run = @ + 1,
                            !.msgs = <<[id |-> 0, body |-> body]>>,
                            !.i = 1, !.processed = 0]
    /\ UNCHANGED <<config, pipe, workers, clock, store, dlq, faults, queue, schema, admin>>

CliRec == cli.msgs[cli.i]
CliAttempt == <<CliRec.id, cli.run>>

\* How an attempt at a message ended.
Entry(c, kind, send, deleted) ==
    [id |-> c.msgs[c.i].id, run |-> c.run, kind |-> kind, dlq |-> send,
     committed |-> c.committed, deleted |-> deleted, opened |-> c.opened]

\* An exception leaves the try block: consume-batch goes to its except
\* clause, consume-file has none and the command ends with the exception.
CliFail(c, e) ==
    IF c.cmd = "consume-batch" THEN [c EXCEPT !.pc = "except", !.err = e]
    ELSE [c EXCEPT !.pc = "raised", !.err = e,
                   !.hist = Append(@, Entry(c, e.kind, "none", FALSE))]

\* A faulty Closed: _process_doc has no finally clause.
Closed_leak(c) == c

\* finally: conn.close()
Closed(c) == [c EXCEPT !.conn = 0]

\* A faulty CliBegin: the connection is opened before the document is
\* normalized and validated.
CliBegin_connects ==
    /\ cli.pc = "loop"
    /\ cli.i <= Len(cli.msgs)
    /\ \E now \in IF ReadsClock(CliRec.body) THEN Instants ELSE {clock} :
         LET p == Prepare(CliRec.body, now)
             c == [cli EXCEPT !.committed = FALSE, !.opened = @ + 1] IN
         /\ clock' = now
         /\ cli' = IF p.ok THEN [c EXCEPT !.pc = "upsert", !.rows = p.rows, !.conn = @ + 1]
                   ELSE CliFail(c, p.err)
    /\ UNCHANGED <<config, pipe, workers, store, dlq, faults, queue, schema, admin>>

\* The next message: _json_loads_maybe_twice, then _process_doc up to
\* doc_to_rows.
CliBegin ==
    /\ cli.pc = "loop"
    /\ cli.i <= Len(cli.msgs)
    /\ \E now \in IF ReadsClock(CliRec.body) THEN Instants ELSE {clock} :
         LET p == Prepare(CliRec.body, now)
             c == [cli EXCEPT !.committed = FALSE, !.opened = 0] IN
         /\ clock' = now
         /\ cli' = IF p.ok THEN [c EXCEPT !.pc = "connect", !.rows = p.rows]
                   ELSE CliFail(c, p.err)
    /\ UNCHANGED <<config, pipe, workers, store, dlq, faults, queue, schema, admin>>

\* conn = get_conn(): _env raises, pg.connect raises, or a connection.
CliConnect ==
    /\ cli.pc = "connect"
    /\ \/ /\ dbEnv = "missing"
          /\ cli' = CliFail(cli, ConfigErr)
          /\ faults' = faults
       \/ /\ dbEnv = "set"
          /\ faults < MaxFaults
          /\ faults' = faults + 1
          /\ cli' = CliFail(cli, StorageErr("get_conn", 0))
       \/ /\ dbEnv = "set"
          /\ faults' = faults
          /\ cli' = [cli EXCEPT !.pc = "upsert", !.conn = @ + 1, !.opened = @ + 1]
    /\ UNCHANGED <<config, pipe, workers, clock, store, dlq, queue, schema, admin>>

\* upsert_rows(conn, rows): executemany writes the rows in a transaction
\* opened at NOW(), or raises (always when the table does not exist) and the
\* finally clause closes the connection.
CliUpsert ==
    /\ cli.pc = "upsert"
    /\ \/ /\ "price_items" \in schema
          /\ \E now \in Instants :
               /\ clock' = now
               /\ cli' = [cli EXCEPT !.pc = "commit", !.start = now]
          /\ faults' = faults
       \/ /\ "price_items" \notin schema \/ faults < MaxFaults
          /\ faults' = IF "price_items" \in schema THEN faults + 1 ELSE faults
          /\ cli' = CliFail(Closed(cli), StorageErr("executemany", 0))
          /\ clock' = clock
    /\ UNCHANGED <<config, pipe, workers, store, dlq, queue, schema, admin>>

\* conn.commit(), then the finally clause.  consume-batch goes on to
\* delete_message, consume-file prints and ends.
CliCommit ==
    /\ cli.pc = "commit"
    /\ \/ /\ store' = ApplyTxn(store, cli.rows, cli.start, CliAttempt)
          /\ faults' = faults
          /\ LET c == [Closed(cli) EXCEPT !.committed = TRUE] IN
             cli' = IF cli.cmd = "consume-batch" THEN [c EXCEPT !.pc = "delete"]
                    ELSE [c EXCEPT !.pc = "done",
                                   !.hist = Append(@, Entry(c, "ok", "none", FALSE))]
       \/ /\ faults < MaxFaults
          /\ faults' = faults + 1
          /\ store' = store
          /\ cli' = CliFail(Closed(cli), StorageErr("commit", Len(cli.rows)))
    /\ UNCHANGED <<config, pipe, workers, clock, dlq, queue, schema, admin>>

DeleteErr == [kind |-> "ClientError", msgs |-> <<Violation(0, "delete_message")>>]

\* _sqs.delete_message(...); processed += 1, or the call raises.
CliDelete ==
    /\ cli.pc = "delete"
    /\ \/ /\ queue' = [queue EXCEPT ![CliRec.id].at = "deleted"]
          /\ faults' = faults
          /\ cli' = [cli EXCEPT !.pc = "loop", !.i = @ + 1, !.processed = @ + 1,
                                !.hist = Append(@, Entry(cli, "ok", "none", TRUE))]
       \/ /\ faults < MaxFaults
          /\ faults' = faults + 1
          /\ queue' = queue
          /\ cli' = CliFail(cli, DeleteErr)
    /\ UNCHANGED <<config, pipe, workers, clock, store, dlq, schema, admin>>

\* A faulty CliExcept: a message is deleted from the source queue once its
\* dead-letter send has not raised.
CliExcept_deletes ==
    /\ cli.pc = "except"
    /\ \E o \in IF faults < MaxFaults THEN SendOutcomes ELSE {"ok"} :
         LET s == _send_to_dlq(CliRec.body, cli.err, o) IN
         /\ faults' = IF s.attempted /\ o # "ok" THEN faults + 1 ELSE faults
         /\ dlq' = IF s.delivered
                   THEN dlq \cup {[id |-> CliAttempt, message |-> s.message]}
                   ELSE dlq
         /\ queue' = IF s.raised THEN queue
                     ELSE [queue EXCEPT ![CliRec.id].at = "deleted"]
         /\ cli' = [cli EXCEPT !.pc = IF s.raised THEN "raised" ELSE "loop",
                               !.i = IF s.raised THEN @ ELSE @ + 1,
                               !.err = NoErr,
                               !.hist = Append(@, Entry(cli, cli.err.kind, SendResult(s),
                                                        ~s.raised))]
    /\ UNCHANGED <<config, pipe, workers, clock, store, schema, admin>>

\* except Exception as e: _send_to_dlq(body, str(e)).  The message is not
\* deleted from the source queue.
CliExcept ==
    /\ cli.pc = "except"
    /\ \E o \in IF faults < MaxFaults THEN SendOutcomes ELSE {"ok"} :
         LET s == _send_to_dlq(CliRec.body, cli.err, o) IN
         /\ faults' = IF s.attempted /\ o # "ok" THEN faults + 1 ELSE faults
         /\ dlq' = IF s.delivered
                   THEN dlq \cup {[id |-> CliAttempt, message |-> s.message]}
                   ELSE dlq
         /\ cli' = [cli EXCEPT !.pc = IF s.raised THEN "raised" ELSE "loop",
                               !.i = IF s.raised THEN @ ELSE @ + 1,
                               !.err = NoErr,
                               !.hist = Append(@, Entry(cli, cli.err.kind, SendResult(s),
                                                        FALSE))]
    /\ UNCHANGED <<config, pipe, workers, clock, store, queue, schema, admin>>

\* After the loop: print and return.
CliPrint ==
    /\ cli.pc = "loop"
    /\ cli.i > Len(cli.msgs)
    /\ cli' = [cli EXCEPT !.pc = "done"]
    /\ UNCHANGED <<config, pipe, workers, clock, store, dlq, faults, queue, schema, admin>>

\* The visibility timeout of a received message that was not deleted runs
\* out: the queue delivers it again.
VisibilityTimeout ==
    /\ CliStopped
    /\ \E m \in 1..Len(queue) :
         /\ queue[m].at = "inflight"
         /\ queue' = [queue EXCEPT ![m].at = "visible"]
    /\ UNCHANGED <<config, pipe, workers, clock, store, dlq, faults, schema, cli, admin>>

AdminActions == {"setup", "probe", "count"}

\* lambda_handler with {"action": a}: _db_exec, _db_ping or _count_table
\* up to conn = get_conn(), which raises or returns a connection.
AdminCall ==
    /\ admin.pc = "idle"
    /\ cli.run + admin.calls < MaxOps
    /\ \E a \in AdminActions :
         \/ /\ dbEnv = "missing"
            /\ admin' = [admin EXCEPT !.calls = @ + 1]
            /\ faults' = faults
         \/ /\ dbEnv = "set"
            /\ faults < MaxFaults
            /\ faults' = faults + 1
            /\ admin' = [admin EXCEPT !.calls = @ + 1]
         \/ /\ dbEnv = "set"
            /\ faults' = faults
            /\ admin' = [admin EXCEPT !.calls = @ + 1, !.pc = "exec", !.action = a,
                                      !.conn = @ + 1]
    /\ UNCHANGED <<config, pipe, workers, clock, store, dlq, queue, schema, cli>>

\* A faulty DDL_PRICE_ITEMS: DROP TABLE IF EXISTS, then CREATE TABLE.
DDL_recreate(sch, rs) == [schema |-> Schema, store |-> {}]

\* DDL_PRICE_ITEMS run on a database with the objects sch and the rows rs:
\* CREATE TABLE IF NOT EXISTS, CREATE INDEX IF NOT EXISTS.
DDL_PRICE_ITEMS(sch, rs) == [schema |-> sch \cup Schema, store |-> rs]

\* A faulty Returned: _db_exec has no finally clause.
Returned_leak(a) == [a EXCEPT !.pc = "idle", !.action = "none"]

\* finally: conn.close(), and the call returns or raises.
Returned(a) == [a EXCEPT !.pc = "idle", !.action = "none", !.conn = 0]

\* cur.execute(sql) and what follows it, then the finally clauses.  The
\* statement raises, or: setup runs the DDL and commits, probe and count
\* read (SELECT COUNT(*) raises when the table does not exist).  seen is the
\* number of committed rows the statement of setup or count found.
AdminExec ==
    /\ admin.pc = "exec"
    /\ \/ /\ admin.action = "setup"
          /\ schema' = DDL_PRICE_ITEMS(schema, store).schema
          /\ store' = DDL_PRICE_ITEMS(schema, store).store
          /\ admin' = [Returned(admin) EXCEPT !.setups = @ + 1,
                                              !.seen = Cardinality(store)]
          /\ faults' = faults
       \/ /\ admin.action = "probe"
          /\ admin' = Returned(admin)
          /\ UNCHANGED <<schema, store, faults>>
       \/ /\ admin.action = "count"
          /\ admin' = [Returned(admin) EXCEPT !.seen = Cardinality(store)]
          /\ UNCHANGED <<schema, store, faults>>
       \/ /\ faults < MaxFaults
          /\ faults' = faults + 1
          /\ admin' = Returned(admin)
          /\ UNCHANGED <<schema, store>>
    /\ UNCHANGED <<config, pipe, workers, clock, dlq, queue, cli>>

CliNext ==
    \/ ConsumeBatch
    \/ ConsumeFile
    \/ CliBegin
    \/ CliConnect
    \/ CliUpsert
    \/ CliCommit
    \/ CliDelete
    \/ CliExcept
    \/ CliPrint
    \/ VisibilityTimeout
    \/ AdminCall
    \/ AdminExec

CliSpec == CliInit /\ [][CliNext]_vars

\* ----------------------------- the claims about the command line and admin
\* A step of an administrative invocation.
AdminStep == admin' # admin

\* C22: setup, probe and count, invoked any number of times and interleaved
\* with the upserts of ingestion, never change, add or remove a stored row
\* (nor touch the queues or the consumer), and the schema after one or more
\* setup calls is the schema after one.
C22_AdminIdempotent ==
    /\ [][AdminStep => UNCHANGED <<store, dlq, queue, cli>>]_vars
    /\ [](admin.setups >= 1 => schema = Schema)

\* C22's case: setup has run on a table that held committed rows, and the
\* rows are there.
C22_Witness ==
    admin.setups >= 1 /\ admin.seen > 0 /\ Cardinality(store) = admin.seen

\* C22's other case: setup has run twice.
C22_SetupTwice == admin.setups = 2 /\ schema = Schema

\* C23: whatever the operation (a batch, a single document, an
\* administrative action; completed or failed), no natural key that is in
\* the store leaves it.
C23_NeverDeletes == [][Keys(store) \subseteq Keys(store')]_vars

\* C23's case: rows were committed, a later attempt at a message failed,
\* an administrative action has run, and the rows are in the store.
C23_Witness ==
    /\ store # {}
    /\ admin.calls >= 1
    /\ \E i, j \in 1..Len(cli.hist) :
          i < j /\ cli.hist[i].kind = "ok" /\ cli.hist[j].kind # "ok"

\* The attempts of the command-line consumer that have ended.
CliEntries == {cli.hist[i] : i \in 1..Len(cli.hist)}

\* This step deletes message m from the source queue.
Deletes(m) == queue[m].at # "deleted" /\ queue'[m].at = "deleted"

\* Every row of the message at hand is in the store as this attempt wrote it.
RowsCommitted ==
    \A i \in 1..Len(cli.rows) :
        \E r \in store : Key(r) = Key(cli.rows[i]) /\ r.by = CliAttempt

\* C24: consume-batch deletes a message from the source queue only after
\* its rows have been committed, and never deletes a message whose
\* processing failed.
C24_DeleteAfterCommit ==
    /\ [][\A m \in 1..Len(queue) :
            Deletes(m) =>
                /\ cli.cmd = "consume-batch" /\ cli.pc = "delete"
                /\ CliRec.id = m
                /\ cli.committed /\ RowsCommitted]_vars
    /\ [](\A e \in CliEntries : e.deleted => e.kind = "ok" /\ e.committed)
    /\ [](\A m \in 1..Len(queue) :
            queue[m].at = "deleted" =>
                \E e \in CliEntries : e.id = m /\ e.kind = "ok" /\ e.deleted)

\* C24's case: of two received messages the failed one is left in the
\* queue and the committed one is deleted.
C24_Witness ==
    /\ Len(queue) = 2
    /\ queue[1].at # "deleted" /\ queue[2].at = "deleted"
    /\ \E e \in CliEntries : e.id = 1 /\ e.kind = "ValidationError"
    /\ \E r \in store : r.by[1] = 2

\* C25: a connection is open only between get_conn() and the finally
\* clause of the call that opened it: once _process_doc, _db_exec, _db_ping
\* or _count_table has returned or raised, its connection is closed; the
\* consumer holds at most one connection and opens a new one for every
\* message it writes.
C25_ConnectionReleased ==
    /\ cli.conn \in {0, 1}
    /\ cli.conn = 1 <=> cli.pc \in {"upsert", "commit"}
    /\ admin.conn \in {0, 1}
    /\ admin.conn = 1 <=> admin.pc = "exec"
    /\ \A e \in CliEntries :
          /\ e.opened <= 1
          /\ e.committed => e.opened = 1

\* C25's case: an attempt opened a connection and failed in the store, an
\* administrative action has returned, and no connection is open.
C25_Witness ==
    /\ \E e \in CliEntries : e.kind = "StorageError" /\ e.opened = 1
    /\ admin.calls >= 1 /\ admin.pc = "idle"
    /\ cli.conn = 0 /\ admin.conn = 0

\* The exceptions of decoding, normalization and validation.
PreStoreKinds ==
    {"DecodeError", "AttributeError", "TypeError", "TimestampParseError",
     "ValidationError"}

\* The rows attempt e has in the store.
RowsOf(e) == {r \in store : r.by = <<e.id, e.run>>}

\* C27: a message that fails decoding, normalization or validation leaves
\* the store as it was: the step that fails changes no row, and the attempt
\* opens no connection and writes no row.
C27_FailsBeforeStore ==
    /\ [][(cli.pc = "loop" /\ cli'.pc \in {"except", "raised"}) =>
             /\ cli'.err.kind \in PreStoreKinds
             /\ store' = store
             /\ cli'.conn = 0 /\ cli'.opened = 0]_vars
    /\ [](\A e \in CliEntries :
             e.kind \in PreStoreKinds =>
                 e.opened = 0 /\ ~e.committed /\ RowsOf(e) = {})

\* C27's case: after a message that failed validation, the next one has
\* been committed.
C27_Witness ==
    /\ \E e \in CliEntries : e.kind = "ValidationError" /\ e.opened = 0
    /\ \E e \in CliEntries : e.kind = "ok" /\ RowsOf(e) # {}

\* C28: an attempt that ends in the except clause (the message is sent to
\* the dead-letter queue or counted as failed) has committed none of the
\* message's rows, also when the step that failed came after the commit.
C28_FailedMeansNotCommitted ==
    /\ \A e \in CliEntries : e.kind # "ok" => ~e.committed /\ RowsOf(e) = {}
    /\ \A d \in dlq : \A r \in store : r.by # d.id

\* C28 for the attempts in which delete_message does not raise.
C28_FailedMeansNotCommittedButDelete ==
    \A e \in CliEntries :
        e.kind \notin {"ok", "ClientError"} => ~e.committed /\ RowsOf(e) = {}

\* C28 in lambda_handler, where nothing that can raise follows the commit.
C28_HandlerFailedMeansNotCommitted ==
    /\ \A e \in AllEntries : e.kind # "ok" => \A r \in store : r.by # e.id
    /\ \A d \in dlq : \A r \in store : r.by # d.id

\* C28's case in lambda_handler: of two records one is committed and one is
\* dead-lettered.
C28_HandlerCase ==
    /\ dlq # {} /\ store # {}
    /\ \E e \in AllEntries : e.kind # "ok" /\ e.dlq = "sent"

\* The dead-letter records and the ended attempts of message m of the
\* source queue.
DeadLetters(m) == {d \in dlq : d.id[1] = m}
Attempts(m) == {e \in CliEntries : e.id = m}
DeadLettered(m) ==
    \E e \in Attempts(m) : e.kind \in PermanentKinds /\ e.dlq = "sent"

\* C29: a message that failed decoding, timestamp parsing or validation and
\* was dead-lettered is not delivered again: over all the deliveries of the
\* queue it has at most one dead-letter record, and no attempt is made at
\* it after the one that dead-lettered it.
C29_DeadLetteredIsTerminal ==
    \A m \in 1..Len(queue) :
        /\ DeadLettered(m) => Cardinality(DeadLetters(m)) <= 1
        /\ \A e, f \in Attempts(m) :
               e.kind \in PermanentKinds /\ e.dlq = "sent" => f.run <= e.run

\* C29's cause: consume-batch has dead-lettered a message and left it in
\* flight on the source queue, to become visible again.
C29_LeftForRedelivery ==
    \E m \in 1..Len(queue) : DeadLettered(m) /\ queue[m].at = "inflight"
====
